---- MODULE Spec2Model ----
(***************************************************************************)
(* Model of the vision-to-state pipeline of solitaire-ocr                  *)
(* (src/rust/src/main.rs): translate, non_maximum_suppression,             *)
(* associate_cards_and_suits, group_bounding_boxes_by_x_percentage,        *)
(* group_bounding_boxes_by_y_range and generate_game_state.                *)
(*                                                                         *)
(* Strings are sequences of one-character strings, so that format! and     *)
(* str::contains are computed and not assumed.  f32 quotients of the small *)
(* integers of the model are compared exactly as rationals: for            *)
(* coordinates below 2^19 two different quotients a/b never round to the   *)
(* same f32, and equal quotients round equally.                            *)
(***************************************************************************)
EXTENDS Integers, Sequences, FiniteSets, TLC

VARIABLES
    pc,                   \* position in translate / generate_game_state
    ret,                  \* how translate ended: "running", "Ok", "Err", "panic"
    failed,               \* the step that reported a failure, or "none"
    templates,            \* get_templates(): the template files in read_dir order
    next_template,        \* position of the for loop of translate
    card_bounding_boxes,  \* translate: rank detections before suppression
    suit_bounding_boxes,  \* translate: suit detections before suppression
    overlap_thresh,       \* non_maximum_suppression: <<num, den>> of the threshold
    cards,                \* filtered_cards / generate_game_state's cards
    suits,                \* filtered_suits / generate_game_state's suits
    image_width,          \* img.cols()
    y_range_step,         \* generate_game_state's y_range_step
    associated_cards,     \* generate_game_state: associated_cards
    grouped_by_x,         \* generate_game_state: the zone map
    visited,              \* zones the for loop over the map has visited
    reordered,            \* a zone with boxes was visited after a later such zone
    draw_pile,            \* generate_game_state: draw_pile
    game_piles,           \* generate_game_state: game_piles
    discard_pile,         \* generate_game_state: discard_pile (options)
    game_state,           \* <<>>, or <<g>> once generate_game_state returned g
    output_png,           \* output_with_boxes.png: "none", "written", "failed"
    output_json,          \* output.json: "none", "written", "failed"
    printed               \* "Game state saved to output.json" was printed

inputVars == <<templates, overlap_thresh, image_width, y_range_step>>

detectionVars == <<card_bounding_boxes, suit_bounding_boxes>>

filteredVars == <<cards, suits>>

genVars == <<associated_cards, grouped_by_x, visited, reordered, draw_pile,
             game_piles, discard_pile>>

outputVars == <<output_png, output_json, printed>>

vars == <<pc, ret, failed, next_template, game_state, inputVars,
          detectionVars, filteredVars, genVars, outputVars>>

(***************************************************************************)
(* Integer helpers with Rust's semantics.                                  *)
(***************************************************************************)
Max(a, b) == IF a >= b THEN a ELSE b

Min(a, b) == IF a <= b THEN a ELSE b

Abs(a) == IF a < 0 THEN -a ELSE a

\* i32 `/`: truncation toward zero.
TruncDiv(a, b) == IF a >= 0 THEN a \div b ELSE -((-a) \div b)

I32Max == 2147483647

I32Min == -I32Max - 1

\* i32::saturating_sub: saturates at the bounds of i32, not at zero.
SaturatingSub(a, b) == Max(I32Min, Min(I32Max, a - b))

(***************************************************************************)
(* Labels.                                                                 *)
(***************************************************************************)
NullLabel == <<"n", "u", "l", "l">>

Hearts == <<"h", "e", "a", "r", "t", "s">>

Diamonds == <<"d", "i", "a", "m", "o", "n", "d", "s">>

Clubs == <<"c", "l", "u", "b", "s">>

Spades == <<"s", "p", "a", "d", "e", "s">>

\* translate, line 77: the labels that select the suit threshold.
IsSuitLabel(label) == label \in {Hearts, Diamonds, Clubs, Spades}

\* format!("{} {}", card.label, suit_label)
FormatLabel(card_label, suit_label) == card_label \o <<" ">> \o suit_label

\* label.contains("J")
ContainsJ(label) == \E i \in DOMAIN label : label[i] = "J"

BoundingBox(x1, y1, x2, y2, label) ==
    [x1 |-> x1, y1 |-> y1, x2 |-> x2, y2 |-> y2, label |-> label]

\* create_bounding_boxes: one box per match position, in match order.
CreateBoundingBoxes(matches, template_width, template_height, label) ==
    [i \in 1..Len(matches) |->
        BoundingBox(matches[i][1], matches[i][2],
                    matches[i][1] + template_width,
                    matches[i][2] + template_height, label)]

(***************************************************************************)
(* non_maximum_suppression                                                 *)
(***************************************************************************)
InterArea(current, b) ==
    Max(Min(current.x2, b.x2) - Max(current.x1, b.x1), 0)
      * Max(Min(current.y2, b.y2) - Max(current.y1, b.y1), 0)

BoxArea(b) == (b.x2 - b.x1) * (b.y2 - b.y1)

\* A mutation of OverlapKept: intersection over union instead of the
\* fraction of b's own area.
OverlapKeptIoU(current, b, t) ==
    InterArea(current, b) * t[2]
        <= t[1] * (BoxArea(current) + BoxArea(b) - InterArea(current, b))

\* The closure of retain: overlap <= overlap_thresh with
\* overlap = inter_area as f32 / box_area as f32 and t = t[1] / t[2].
\* A box of area 0 gives 0.0 / 0.0 = NaN, which compares false.
OverlapKept(current, b, t) ==
    IF BoxArea(b) > 0
    THEN InterArea(current, b) * t[2] <= t[1] * BoxArea(b)
    ELSE BoxArea(b) < 0

RECURSIVE InsertAsc(_, _)
InsertAsc(s, b) ==
    IF s = <<>> THEN <<b>>
    ELSE IF Head(s).y2 <= b.y2 THEN <<Head(s)>> \o InsertAsc(Tail(s), b)
    ELSE <<b>> \o s

\* A mutation of SortByY2Desc: an ascending sort (a.y2.cmp(&b.y2)).
RECURSIVE SortByY2Asc(_)
SortByY2Asc(s) ==
    IF s = <<>> THEN <<>>
    ELSE InsertAsc(SortByY2Asc(SubSeq(s, 1, Len(s) - 1)), s[Len(s)])

\* A mutation of SortByY2Desc: the sort left out.
Unsorted(s) == s

\* b goes behind every box whose y2 is not smaller: the sort is stable.
RECURSIVE InsertDesc(_, _)
InsertDesc(s, b) ==
    IF s = <<>> THEN <<b>>
    ELSE IF Head(s).y2 >= b.y2 THEN <<Head(s)>> \o InsertDesc(Tail(s), b)
    ELSE <<b>> \o s

\* boxes.sort_by(|a, b| b.y2.cmp(&a.y2)): stable, descending y2.
RECURSIVE SortByY2Desc(_)
SortByY2Desc(s) ==
    IF s = <<>> THEN <<>>
    ELSE InsertDesc(SortByY2Desc(SubSeq(s, 1, Len(s) - 1)), s[Len(s)])

\* while let Some(current) = boxes.pop() { push; retain }
RECURSIVE NmsLoop(_, _, _)
NmsLoop(boxes, filtered_boxes, t) ==
    IF boxes = <<>> THEN filtered_boxes
    ELSE LET current == boxes[Len(boxes)]
             rest    == SubSeq(boxes, 1, Len(boxes) - 1)
         IN  NmsLoop(SelectSeq(rest, LAMBDA b : OverlapKept(current, b, t)),
                     Append(filtered_boxes, current), t)

NonMaximumSuppression(boxes, t) == NmsLoop(SortByY2Desc(boxes), <<>>, t)

(***************************************************************************)
(* associate_cards_and_suits                                               *)
(***************************************************************************)
\* A mutation of SuitCloser: <= lets the last of several equally distant
\* suits win.
SuitCloserOrEqual(vertical_overlap, horizontal_distance, min_distance) ==
    vertical_overlap /\ horizontal_distance <= min_distance

\* line 216: vertical_overlap && horizontal_distance < min_distance
SuitCloser(vertical_overlap, horizontal_distance, min_distance) ==
    vertical_overlap /\ horizontal_distance < min_distance

\* The inner for loop from suit i on; closest_suit is <<>> (None) or
\* <<label>> (Some(label)).
RECURSIVE FindClosestSuit(_, _, _, _, _)
FindClosestSuit(card, suit_boxes, i, min_distance, closest_suit) ==
    IF i > Len(suit_boxes) THEN closest_suit
    ELSE LET suit == suit_boxes[i]
             horizontal_distance == Abs(suit.x1 - card.x2)
             vertical_overlap == suit.y1 <= card.y2 /\ suit.y2 >= card.y1
         IN  IF SuitCloser(vertical_overlap, horizontal_distance, min_distance)
             THEN FindClosestSuit(card, suit_boxes, i + 1,
                                  horizontal_distance, <<suit.label>>)
             ELSE FindClosestSuit(card, suit_boxes, i + 1,
                                  min_distance, closest_suit)

AssociateCardsAndSuits(card_boxes, suit_boxes) ==
    [i \in 1..Len(card_boxes) |->
        LET card == card_boxes[i]
            closest_suit == FindClosestSuit(card, suit_boxes, 1, I32Max, <<>>)
        IN  IF closest_suit # <<>>
            THEN [card EXCEPT !.label = FormatLabel(card.label, closest_suit[1])]
            ELSE card]

(***************************************************************************)
(* group_bounding_boxes_by_x_percentage                                    *)
(***************************************************************************)
NumRanges == 9

DecimalDigits == <<"0", "1", "2", "3", "4", "5", "6", "7", "8", "9">>

DigitChar(d) == DecimalDigits[d + 1]

\* Display of a non-negative integer.
RECURSIVE FormatInt(_)
FormatInt(n) ==
    IF n < 10 THEN <<DigitChar(n)>>
    ELSE FormatInt(n \div 10) \o <<DigitChar(n % 10)>>

\* {:.0} of (i as f32 / 9.0) * 100.0: 100 i / 9 rounded to the nearest
\* integer (it is never half-way between two integers).
RoundPercent(i) == (200 * i + NumRanges) \div (2 * NumRanges)

\* format!("{:.0}%-{:.0}%", start * 100.0, end * 100.0) of range i
RangeKey(i) ==
    FormatInt(RoundPercent(i)) \o <<"%", "-">>
        \o FormatInt(RoundPercent(i + 1)) \o <<"%">>

RangeKeys == {RangeKey(i) : i \in 0..(NumRanges - 1)}

\* line 248: start <= x_percentage && x_percentage < end, with
\* x_percentage = ((x1 + x2) / 2) / width, start = i / 9, end = (i + 1) / 9
\* and width > 0.
InRange(b, width, i) ==
    /\ 2 * width * i <= NumRanges * (b.x1 + b.x2)
    /\ NumRanges * (b.x1 + b.x2) < 2 * width * (i + 1)

\* The inner for loop with its break: the first range from i on that holds
\* the center, or -1 when the loop ends without a push.
RECURSIVE FirstRange(_, _, _)
FirstRange(b, width, i) ==
    IF i >= NumRanges THEN -1
    ELSE IF InRange(b, width, i) THEN i
    ELSE FirstRange(b, width, i + 1)

GroupBoundingBoxesByXPercentage(bounding_boxes, width) ==
    [key \in RangeKeys |->
        SelectSeq(bounding_boxes,
                  LAMBDA b : LET i == FirstRange(b, width, 0)
                             IN  i # -1 /\ RangeKey(i) = key)]

(***************************************************************************)
(* group_bounding_boxes_by_y_range                                         *)
(***************************************************************************)
Flush(grouped_rows, current_row) ==
    IF current_row # <<>> THEN Append(grouped_rows, current_row)
    ELSE grouped_rows

\* The for loop from box i on; y_end is always y_start + y_range_step.
RECURSIVE YRangeLoop(_, _, _, _, _, _)
YRangeLoop(bounding_boxes, i, step, grouped_rows, current_row, y_start) ==
    IF i > Len(bounding_boxes) THEN Flush(grouped_rows, current_row)
    ELSE LET b == bounding_boxes[i]
             center_y == TruncDiv(b.y1 + b.y2, 2)
         IN  IF y_start <= center_y /\ center_y < y_start + step
             THEN YRangeLoop(bounding_boxes, i + 1, step, grouped_rows,
                             Append(current_row, b), y_start)
             ELSE YRangeLoop(bounding_boxes, i + 1, step,
                             Flush(grouped_rows, current_row), <<b>>,
                             TruncDiv(center_y, step) * step)

GroupBoundingBoxesByYRange(bounding_boxes, step) ==
    YRangeLoop(bounding_boxes, 1, step, <<>>, <<>>, 0)

(***************************************************************************)
(* generate_game_state: the body of the for loop over the zone map.        *)
(***************************************************************************)
StartingY == 75

NumGamePiles == 7

NumDiscard == 4

DrawKey == <<"0", "%", "-", "1", "1", "%">>

DiscardKey == <<"8", "9", "%", "-", "1", "0", "0", "%">>

RECURSIVE Flatten(_)
Flatten(rows) == IF rows = <<>> THEN <<>> ELSE Head(rows) \o Flatten(Tail(rows))

Labels(boxes) == [i \in 1..Len(boxes) |-> boxes[i].label]

\* x_range.split('-').next().unwrap()
RECURSIVE SplitFirst(_)
SplitFirst(s) ==
    IF s = <<>> \/ Head(s) = "-" THEN <<>>
    ELSE <<Head(s)>> \o SplitFirst(Tail(s))

\* trim_end_matches('%')
RECURSIVE TrimEndPercent(_)
TrimEndPercent(s) ==
    IF s # <<>> /\ s[Len(s)] = "%" THEN TrimEndPercent(SubSeq(s, 1, Len(s) - 1))
    ELSE s

DigitValue(c) == CHOOSE d \in 0..9 : DecimalDigits[d + 1] = c

IsDigit(c) == \E d \in 0..9 : DecimalDigits[d + 1] = c

RECURSIVE ParseDigits(_, _)
ParseDigits(s, acc) ==
    IF s = <<>> THEN acc
    ELSE ParseDigits(Tail(s), 10 * acc + DigitValue(Head(s)))

\* parse::<i32>() of an unsigned decimal: <<n>> for Ok(n), <<>> for Err.
ParseI32(s) ==
    IF s # <<>> /\ \A k \in DOMAIN s : IsDigit(s[k])
    THEN <<ParseDigits(s, 0)>>
    ELSE <<>>

\* lines 324-329 for each key of the zone map: the text before the first
\* '-', without its trailing '%', parsed as i32.
StartPercentage ==
    [key \in RangeKeys |-> ParseI32(TrimEndPercent(SplitFirst(key)))]

\* A mutation of PileIndex: a divisor of 12 sends two zones to one pile.
PileIndexBy12(start_percentage) == TruncDiv(start_percentage - 11, 12)

\* line 331: ((start_percentage - 11) / 11) as usize
PileIndex(start_percentage) == TruncDiv(start_percentage - 11, 11)

\* line 340: (first_box.y1.saturating_sub(starting_y)) / y_range_step
NullRows(y1, step) == TruncDiv(SaturatingSub(y1, StartingY), step)

\* Vec::resize(new_len, value)
Resize(v, new_len, value) ==
    [k \in 1..new_len |-> IF k <= Len(v) THEN v[k] ELSE value]

\* min_by_key(|b| b.y1) over a non-empty sequence: the first minimum.
MinY1(boxes) ==
    LET k == CHOOSE k \in DOMAIN boxes :
                 /\ \A j \in DOMAIN boxes : boxes[k].y1 <= boxes[j].y1
                 /\ \A j \in 1..(k - 1) : boxes[j].y1 > boxes[k].y1
    IN  boxes[k]

\* One iteration of the for loop (lines 305-348) on the piles st; panicked
\* is set when resize is asked for (negative i32) as usize elements.
ProcessZone(st, x_range, boxes, step) ==
    LET rows == GroupBoundingBoxesByYRange(boxes, step)
        flat == Flatten(rows)
        start == StartPercentage[x_range]
    IN  IF x_range = DrawKey
        THEN [st EXCEPT !.draw_pile = Labels(flat)]
        ELSE IF x_range = DiscardKey
        THEN [st EXCEPT !.discard_pile =
                [k \in 1..Len(st.discard_pile) |->
                    IF k <= Len(rows)
                    THEN IF ContainsJ(rows[k][1].label)
                         THEN <<NullLabel>>
                         ELSE <<rows[k][1].label>>
                    ELSE st.discard_pile[k]]]
        ELSE IF start = <<>> THEN st
        ELSE LET index == PileIndex(start[1])
             IN  IF index < 0 \/ index >= Len(st.game_piles) THEN st
                 ELSE IF flat = <<>> THEN st
                 ELSE LET null_rows == NullRows(MinY1(flat).y1, step)
                      IN  IF null_rows < 0
                          THEN [st EXCEPT !.panicked = TRUE]
                          ELSE [st EXCEPT !.game_piles[index + 1] =
                                   Resize(@, null_rows, NullLabel)
                                       \o Labels(flat)]

(***************************************************************************)
(* Bounds and input universes.                                             *)
(***************************************************************************)
MaxBoxes == 3

MaxAssocSuits == 3

\* The width of the screenshot.
ScreenWidth == 90

\* translate, line 103: the row step passed to generate_game_state.
RowStep == 40

MaxCards == 2

MaxSuits == 1

MaxMatches == 1

\* Sequences over S of length at most n.
SeqsUpTo(S, n) == UNION {[1..k -> S] : k \in 0..n}

Thresholds == {<<1, 2>>, <<0, 1>>, <<9, 10>>}

HalfThreshold == <<1, 2>>

\* Boxes of two sizes, so that a small box can lie inside a large one.
NmsBoxes ==
    {BoundingBox(x, y, x + d, y + d, l) :
        x \in {0, 2}, y \in {0, 1, 2}, d \in {4, 10}, l \in {<<"7">>}}
    \cup {BoundingBox(0, 1, 4, 5, <<"J">>)}

(***************************************************************************)
(* The state machine.                                                      *)
(***************************************************************************)
NoPiles == [k \in 1..NumGamePiles |-> <<>>]

NoDiscard == [k \in 1..NumDiscard |-> <<>>]

\* Everything but the inputs, before translate or the function under test
\* has run.
Blank ==
    /\ ret = "running"
    /\ failed = "none"
    /\ next_template = 1
    /\ associated_cards = <<>>
    /\ grouped_by_x = <<>>
    /\ visited = {}
    /\ reordered = FALSE
    /\ draw_pile = <<>>
    /\ game_piles = <<>>
    /\ discard_pile = <<>>
    /\ game_state = <<>>
    /\ output_png = "none"
    /\ output_json = "none"
    /\ printed = FALSE

\* non_maximum_suppression on any boxes and threshold.
InitNms ==
    /\ pc = "nms"
    /\ templates = <<>>
    /\ card_bounding_boxes \in SeqsUpTo(NmsBoxes, MaxBoxes)
    /\ suit_bounding_boxes = <<>>
    /\ overlap_thresh \in Thresholds
    /\ cards = <<>>
    /\ suits = <<>>
    /\ image_width = ScreenWidth
    /\ y_range_step = RowStep
    /\ Blank

\* translate, lines 94-95: suppression of both detection sets.
Nms ==
    /\ pc = "nms"
    /\ cards' = NonMaximumSuppression(card_bounding_boxes, overlap_thresh)
    /\ suits' = NonMaximumSuppression(suit_bounding_boxes, overlap_thresh)
    /\ pc' = "draw"
    /\ UNCHANGED <<ret, failed, next_template, game_state, inputVars,
                   detectionVars, genVars, outputVars>>

NextNms == Nms

SpecNms == InitNms /\ [][NextNms]_vars

(***************************************************************************)
(* Claims about non_maximum_suppression (checked under SpecNms).           *)
(***************************************************************************)
NmsReturned == pc = "draw"

Count(s, v) == Cardinality({k \in DOMAIN s : s[k] = v})

\* overlap of a and b as a fraction of the smaller of the two exceeds t
ExceedsOnSmaller(a, b, t) ==
    InterArea(a, b) * t[2] > t[1] * Min(BoxArea(a), BoxArea(b))

\* more than fraction t of b's own area lies inside a
ExceedsOnOwn(a, b, t) == InterArea(a, b) * t[2] > t[1] * BoxArea(b)

\* C1 as stated: any two distinct boxes returned by non_maximum_suppression
\* have intersection area / area of the smaller box <= t, for boxes of any
\* mix of sizes.
C1_SmallerBoxRatio ==
    NmsReturned =>
        \A i, j \in DOMAIN cards :
            i < j => ~ExceedsOnSmaller(cards[i], cards[j], overlap_thresh)

\* C1 amended: of any two returned boxes, the one returned later has at
\* most fraction t of its OWN area inside the one returned earlier; hence
\* the smaller-box ratio is bounded whenever the later box is not the
\* larger of the two.
C1_LaterBoxRatio ==
    NmsReturned =>
        \A i, j \in DOMAIN cards :
            i < j =>
                /\ ~ExceedsOnOwn(cards[i], cards[j], overlap_thresh)
                /\ BoxArea(cards[j]) <= BoxArea(cards[i])
                       => ~ExceedsOnSmaller(cards[i], cards[j], overlap_thresh)

\* A small box and a larger one around it are both returned although the
\* small one lies inside the large one by more than t.
C1_Witness ==
    /\ NmsReturned
    /\ Len(cards) < Len(card_bounding_boxes)
    /\ \E i, j \in DOMAIN cards :
           /\ i < j
           /\ BoxArea(cards[i]) < BoxArea(cards[j])
           /\ ExceedsOnSmaller(cards[i], cards[j], overlap_thresh)

\* C10: the returned list is a sub-collection of the input in non-decreasing
\* order of y2; every input box that is not returned has more than fraction
\* t of its own area inside a returned box whose y2 is not larger; and of
\* two equal-size boxes with different y2 that overlap above t, given alone,
\* exactly the one with the smaller y2 is returned.
C10_AscendingY2AndSuppressed ==
    NmsReturned =>
        /\ \A i, j \in DOMAIN cards : i < j => cards[i].y2 <= cards[j].y2
        /\ \A v \in NmsBoxes :
               Count(cards, v) <= Count(card_bounding_boxes, v)
        /\ \A v \in NmsBoxes :
               Count(cards, v) < Count(card_bounding_boxes, v) =>
                   \E k \in DOMAIN cards :
                       /\ cards[k].y2 <= v.y2
                       /\ ExceedsOnOwn(cards[k], v, overlap_thresh)
        /\ \A a, b \in NmsBoxes :
               (/\ card_bounding_boxes \in {<<a, b>>, <<b, a>>}
                /\ BoxArea(a) = BoxArea(b)
                /\ a.y2 < b.y2
                /\ ExceedsOnOwn(a, b, overlap_thresh))
                   => cards = <<a>>

\* Two equal-size boxes with different y2 overlapping above t, the one with
\* the larger y2 given first: the one with the smaller y2 is returned.
C10_Witness ==
    /\ NmsReturned
    /\ Len(card_bounding_boxes) = 2
    /\ Len(cards) = 1
    /\ card_bounding_boxes[1].y2 > card_bounding_boxes[2].y2
    /\ BoxArea(card_bounding_boxes[1]) = BoxArea(card_bounding_boxes[2])
    /\ cards[1] = card_bounding_boxes[2]

(***************************************************************************)
(* generate_game_state as steps: the zone map is a HashMap, so the for     *)
(* loop visits its nine entries in an order the program does not choose.   *)
(***************************************************************************)
Seven == <<"7">>

Jack == <<"J">>

Ten == <<"1", "0">>

\* Rank boxes 4 wide and 6 high at (x1, y1).
RankBox(x1, y1, label) == BoundingBox(x1, y1, x1 + 4, y1 + 6, label)

\* Suit boxes 3 wide and 3 high at (x1, y1).
SuitBox(x1, y1, label) == BoundingBox(x1, y1, x1 + 3, y1 + 3, label)

\* Rank boxes in the draw zone, the first two tableau zones (above, just
\* above and below the starting offset), the discard zone, and one whose
\* center is the right edge of the image.
GenCards ==
    {RankBox(2, 80, Seven), RankBox(12, 10, Seven), RankBox(12, 50, Seven),
     RankBox(12, 120, Jack), RankBox(22, 120, Seven), RankBox(84, 80, Jack),
     RankBox(88, 80, Seven)}

GenSuits == {SuitBox(27, 122, Spades)}

InitGen ==
    /\ pc = "gen_enter"
    /\ templates = <<>>
    /\ card_bounding_boxes = <<>>
    /\ suit_bounding_boxes = <<>>
    /\ overlap_thresh = HalfThreshold
    /\ cards \in SeqsUpTo(GenCards, MaxCards)
    /\ suits \in SeqsUpTo(GenSuits, MaxSuits)
    /\ image_width = ScreenWidth
    /\ y_range_step = RowStep
    /\ Blank

RangeKeyOf == [i \in 0..(NumRanges - 1) |-> RangeKey(i)]

RangeIndex(key) == CHOOSE i \in 0..(NumRanges - 1) : RangeKeyOf[i] = key

\* lines 297-303: association, zoning, and the empty piles.
GenEnter ==
    /\ pc = "gen_enter"
    /\ associated_cards' = AssociateCardsAndSuits(cards, suits)
    /\ grouped_by_x' =
           GroupBoundingBoxesByXPercentage(associated_cards', image_width)
    /\ draw_pile' = <<>>
    /\ game_piles' = NoPiles
    /\ discard_pile' = NoDiscard
    /\ pc' = "gen_loop"
    /\ UNCHANGED <<ret, failed, next_template, game_state, inputVars,
                   detectionVars, filteredVars, visited, reordered, outputVars>>

Piles ==
    [draw_pile |-> draw_pile, game_piles |-> game_piles,
     discard_pile |-> discard_pile, panicked |-> FALSE]

\* lines 305-348: one iteration, on whichever entry the map yields next.
VisitZone ==
    /\ pc = "gen_loop"
    /\ \E x_range \in (DOMAIN grouped_by_x) \ visited :
          \E st \in {ProcessZone(Piles, x_range, grouped_by_x[x_range],
                                  y_range_step)} :
              /\ visited' = visited \cup {x_range}
              /\ reordered' =
                     (\/ reordered
                      \/ /\ grouped_by_x[x_range] # <<>>
                         /\ \E v \in visited :
                                /\ grouped_by_x[v] # <<>>
                                /\ RangeIndex(v) > RangeIndex(x_range))
              /\ draw_pile' = st.draw_pile
              /\ game_piles' = st.game_piles
              /\ discard_pile' = st.discard_pile
              /\ pc' = IF st.panicked THEN "returned" ELSE "gen_loop"
              /\ ret' = IF st.panicked THEN "panic" ELSE ret
    /\ UNCHANGED <<failed, next_template, game_state, inputVars,
                   detectionVars, filteredVars, associated_cards, grouped_by_x,
                   outputVars>>

\* unwrap_or_else(|| "null".to_string())
UnwrapOrNull(card) == IF card = <<>> THEN NullLabel ELSE card[1]

GameStateOf(st) ==
    [draw_pile |-> st.draw_pile, game_piles |-> st.game_piles,
     discard_pile |-> [k \in DOMAIN st.discard_pile |->
                          UnwrapOrNull(st.discard_pile[k])]]

\* lines 350-359: the loop is over, the GameState is returned.
GenReturn ==
    /\ pc = "gen_loop"
    /\ visited = DOMAIN grouped_by_x
    /\ game_state' = <<GameStateOf(Piles)>>
    /\ pc' = "save_game_state"
    /\ UNCHANGED <<ret, failed, next_template, inputVars, detectionVars,
                   filteredVars, genVars, outputVars>>

NextGen == GenEnter \/ VisitZone \/ GenReturn

SpecGen == InitGen /\ [][NextGen]_vars

(***************************************************************************)
(* Claims about generate_game_state and the zoning (checked under SpecGen).*)
(***************************************************************************)
GenReturned == pc = "save_game_state"

GenPanicked == ret = "panic"

\* C2: every box whose horizontal center lies in [0, image_width], right
\* edge included, is in exactly one of the nine zones: zone i with
\* i/9 <= center/image_width < (i+1)/9, the last zone also taking
\* center = image_width.
C2_EveryBoxInOneZone ==
    pc = "gen_loop" =>
        \A k \in DOMAIN associated_cards :
            LET b == associated_cards[k]
                twice_center == b.x1 + b.x2
                zone == IF twice_center = 2 * image_width
                        THEN NumRanges - 1
                        ELSE (NumRanges * twice_center) \div (2 * image_width)
            IN  (0 <= twice_center /\ twice_center <= 2 * image_width) =>
                    \A i \in 0..(NumRanges - 1) :
                        Count(grouped_by_x[RangeKeyOf[i]], b) =
                            IF i = zone THEN Count(associated_cards, b) ELSE 0

\* C3: for detections with non-negative coordinates, also with tableau boxes
\* above the starting offset, generate_game_state completes and returns 7
\* game piles and 4 discard slots.
C3_CompletesWithSevenAndFour ==
    /\ ~GenPanicked
    /\ GenReturned =>
           /\ Len(game_state[1].game_piles) = NumGamePiles
           /\ Len(game_state[1].discard_pile) = NumDiscard

\* The zones visited in the order of their ranges, from range i on.
RECURSIVE InRangeOrder(_, _, _, _)
InRangeOrder(st, i, groups, step) ==
    IF i >= NumRanges THEN st
    ELSE InRangeOrder(ProcessZone(st, RangeKeyOf[i], groups[RangeKeyOf[i]], step),
                      i + 1, groups, step)

NoPilesYet ==
    [draw_pile |-> <<>>, game_piles |-> NoPiles, discard_pile |-> NoDiscard,
     panicked |-> FALSE]

InOrderResultOf(card_boxes, suit_boxes) ==
    InRangeOrder(NoPilesYet, 0,
                 GroupBoundingBoxesByXPercentage(
                     AssociateCardsAndSuits(card_boxes, suit_boxes),
                     image_width),
                 y_range_step)

InOrderResult == InOrderResultOf(cards, suits)

\* C4: whatever order the nine zones are visited in, generate_game_state
\* ends the same way on the same input: it returns the game state that the
\* visit in range order returns, or it panics when that visit panics.
C4_VisitOrderIrrelevant ==
    /\ GenReturned =>
           /\ ~InOrderResult.panicked
           /\ game_state[1] = GameStateOf(InOrderResult)
    /\ GenPanicked => InOrderResult.panicked

\* A game state returned after the map yielded its zones out of range
\* order, with boxes in at least two zones.
C4_Witness ==
    /\ GenReturned
    /\ reordered
    /\ Cardinality({key \in RangeKeys : grouped_by_x[key] # <<>>}) >= 2
    /\ \E k \in 1..NumGamePiles : game_state[1].game_piles[k] # <<>>

Nulls(n) == [k \in 1..n |-> NullLabel]

\* Floor division for a positive divisor.
FloorDiv(a, b) == a \div b

\* C6: each tableau zone with at least one box yields the game pile of index
\* (zone_start_percent - 11) / 11 made of n "null" sentinels and then the
\* labels of the zone's boxes in row order, n being (topmost.y1 - 75)
\* divided by the row step (floor), for every topmost.y1 >= 0.
C6_NullsThenLabels ==
    (GenReturned \/ GenPanicked) =>
        \A i \in 1..NumGamePiles :
            LET boxes == grouped_by_x[RangeKeyOf[i]]
                flat == Flatten(GroupBoundingBoxesByYRange(boxes, y_range_step))
                index == (RoundPercent(i) - 11) \div 11
                n == FloorDiv(MinY1(boxes).y1 - StartingY, y_range_step)
            IN  boxes # <<>> =>
                    /\ GenReturned
                    /\ game_state[1].game_piles[index + 1] = Nulls(n) \o Labels(flat)

(***************************************************************************)
(* associate_cards_and_suits on rank and suit boxes chosen for ties,       *)
(* shared suits and the inclusive vertical test.                           *)
(***************************************************************************)
AssocCards ==
    {BoundingBox(5, 5, 25, 35, Ten), BoundingBox(5, 8, 25, 38, Jack),
     BoundingBox(5, 36, 25, 66, Jack), BoundingBox(5, 100, 25, 130, Seven)}

AssocSuits ==
    {BoundingBox(30, 10, 50, 30, Hearts), BoundingBox(20, 10, 40, 30, Spades),
     BoundingBox(26, 40, 46, 60, Clubs), BoundingBox(27, 35, 47, 55, Diamonds)}

InitAssoc ==
    /\ pc = "gen_enter"
    /\ templates = <<>>
    /\ card_bounding_boxes = <<>>
    /\ suit_bounding_boxes = <<>>
    /\ overlap_thresh = HalfThreshold
    /\ cards \in SeqsUpTo(AssocCards, MaxCards)
    /\ suits \in SeqsUpTo(AssocSuits, MaxAssocSuits)
    /\ image_width = ScreenWidth
    /\ y_range_step = RowStep
    /\ Blank

NextAssoc == GenEnter

SpecAssoc == InitAssoc /\ [][NextAssoc]_vars

Associated == pc = "gen_loop"

\* The suit boxes that overlap the card vertically.
Candidates(card) ==
    {k \in DOMAIN suits : suits[k].y1 <= card.y2 /\ suits[k].y2 >= card.y1}

Distance(card, k) == Abs(suits[k].x1 - card.x2)

\* The earliest of the candidates at the minimal distance.
Nearest(card) ==
    CHOOSE k \in Candidates(card) :
        \A j \in Candidates(card) :
            \/ Distance(card, k) < Distance(card, j)
            \/ Distance(card, k) = Distance(card, j) /\ k <= j

\* C5: one box per rank box, in input order, coordinates unchanged; the
\* label becomes "<rank> <suit>" for the vertically overlapping suit box of
\* minimal |suit.x1 - card.x2|, the earliest in input order among equals,
\* and stays the bare rank when no suit box overlaps vertically.
C5_NearestSuitEarliestWins ==
    Associated =>
        /\ Len(associated_cards) = Len(cards)
        /\ \A i \in DOMAIN cards :
               LET card == cards[i]
                   out == associated_cards[i]
               IN  /\ <<out.x1, out.y1, out.x2, out.y2>>
                          = <<card.x1, card.y1, card.x2, card.y2>>
                   /\ out.label =
                          IF Candidates(card) = {} THEN card.label
                          ELSE card.label \o <<" ">> \o suits[Nearest(card)].label

\* A rank box with two equally distant nearest suits of different labels
\* got the earlier one, and another rank box got the same suit box.
C5_Witness ==
    /\ Associated
    /\ \E i, j \in DOMAIN cards :
           /\ i # j
           /\ Candidates(cards[i]) # {}
           /\ Candidates(cards[j]) # {}
           /\ Nearest(cards[i]) = Nearest(cards[j])
           /\ \E k \in Candidates(cards[i]) :
                  /\ k > Nearest(cards[i])
                  /\ Distance(cards[i], k) = Distance(cards[i], Nearest(cards[i]))
                  /\ suits[k].label # suits[Nearest(cards[i])].label
           /\ associated_cards[i].label =
                  cards[i].label \o <<" ">> \o suits[Nearest(cards[i])].label

(***************************************************************************)
(* translate.  The screenshot and the template files are the inputs: each  *)
(* template comes with the positions match_template_with_threshold finds   *)
(* for it (in scan order, rows first), and get_templates lists the files   *)
(* in whatever order read_dir yields them.  Every fallible call either     *)
(* succeeds or reports a failure.                                          *)
(***************************************************************************)
TemplateFiles ==
    <<[label |-> Jack, cols |-> 4, rows |-> 6],
      [label |-> Hearts, cols |-> 3, rows |-> 3],
      [label |-> Spades, cols |-> 3, rows |-> 3]>>

\* Positions <<x, y>> in scan order: two tableau rows of the second zone.
RankPositions == <<<<12, 80>>, <<12, 120>>>>

\* Both right of the rank box at <<12, 80>> and level with it.
SuitPositions == <<<<17, 82>>, <<17, 84>>>>

\* The positions with index in I, in scan order.
Restrict(positions, I) ==
    LET F[k \in 0..Len(positions)] ==
            IF k = 0 THEN <<>>
            ELSE IF k \in I THEN Append(F[k - 1], positions[k])
            ELSE F[k - 1]
    IN  F[Len(positions)]

MatchLists(positions) ==
    {Restrict(positions, I) :
        I \in {J \in SUBSET DOMAIN positions : Cardinality(J) <= MaxMatches}}

TemplateInputs ==
    {[label |-> TemplateFiles[k].label, cols |-> TemplateFiles[k].cols,
      rows |-> TemplateFiles[k].rows, matches |-> m] :
        k \in DOMAIN TemplateFiles,
        m \in MatchLists(RankPositions) \cup MatchLists(SuitPositions)}

InitTranslate ==
    /\ pc = "load_image"
    /\ templates \in
           {t \in SeqsUpTo(TemplateInputs, Len(TemplateFiles)) :
               /\ \A i, j \in DOMAIN t : i # j => t[i].label # t[j].label
               /\ \A i \in DOMAIN t :
                      t[i].matches \in
                          MatchLists(IF IsSuitLabel(t[i].label)
                                     THEN SuitPositions ELSE RankPositions)}
    /\ card_bounding_boxes = <<>>
    /\ suit_bounding_boxes = <<>>
    /\ overlap_thresh = HalfThreshold
    /\ cards = <<>>
    /\ suits = <<>>
    /\ image_width = ScreenWidth
    /\ y_range_step = RowStep
    /\ Blank

\* translate returns Err(e) from the step that failed.
ReturnErr(step) ==
    /\ failed' = step
    /\ ret' = "Err"
    /\ pc' = "returned"

\* line 61: load_image(image_path)?
LoadImage ==
    /\ pc = "load_image"
    /\ \/ /\ pc' = IF templates = <<>> THEN "nms" ELSE "loop"
          /\ UNCHANGED <<ret, failed>>
       \/ ReturnErr("load_image")
    /\ UNCHANGED <<next_template, game_state, inputVars, detectionVars,
                   filteredVars, genVars, outputVars>>

\* lines 77-90 for one template: its boxes go to the suit set when its
\* label is a suit name (threshold == suit_threshold), to the rank set
\* otherwise.  The result is <<card_bounding_boxes, suit_bounding_boxes>>.
ExtendDetections(template, card_boxes, suit_boxes) ==
    LET boxes == CreateBoundingBoxes(template.matches, template.cols,
                                     template.rows, template.label)
    IN  IF IsSuitLabel(template.label)
        THEN <<card_boxes, suit_boxes \o boxes>>
        ELSE <<card_boxes \o boxes, suit_boxes>>

\* lines 71-91: one iteration of the for loop over the templates.
MatchTemplate ==
    /\ pc = "loop"
    /\ next_template <= Len(templates)
    /\ \/ \E sets \in {ExtendDetections(templates[next_template],
                                        card_bounding_boxes,
                                        suit_bounding_boxes)} :
             /\ card_bounding_boxes' = sets[1]
             /\ suit_bounding_boxes' = sets[2]
             /\ next_template' = next_template + 1
             /\ pc' = IF next_template' > Len(templates) THEN "nms" ELSE "loop"
             /\ UNCHANGED <<ret, failed>>
       \/ /\ \E step \in {"load_template", "match_template"} : ReturnErr(step)
          /\ UNCHANGED <<next_template, detectionVars>>
    /\ UNCHANGED <<game_state, inputVars, filteredVars, genVars, outputVars>>

\* lines 97-98: draw_bounding_boxes(..)? twice.
DrawBoundingBoxes ==
    /\ pc = "draw"
    /\ \/ /\ pc' = "save_image"
          /\ UNCHANGED <<ret, failed>>
       \/ ReturnErr("draw_bounding_boxes")
    /\ UNCHANGED <<next_template, game_state, inputVars, detectionVars,
                   filteredVars, genVars, outputVars>>

\* A mutation of SaveImage: the failure is noted and translate goes on.
SaveImageGoesOn ==
    /\ pc = "save_image"
    /\ \/ /\ output_png' = "written"
          /\ UNCHANGED failed
       \/ /\ output_png' = "failed"
          /\ failed' = "save_image"
    /\ pc' = "gen_enter"
    /\ UNCHANGED <<ret, next_template, game_state, inputVars, detectionVars,
                   filteredVars, genVars, output_json, printed>>

\* line 101: save_image(&img, output_path)?
SaveImage ==
    /\ pc = "save_image"
    /\ \/ /\ output_png' = "written"
          /\ pc' = "gen_enter"
          /\ UNCHANGED <<ret, failed>>
       \/ /\ output_png' = "failed"
          /\ ReturnErr("save_image")
    /\ UNCHANGED <<next_template, game_state, inputVars, detectionVars,
                   filteredVars, genVars, output_json, printed>>

\* line 104: let _ = save_game_state(&game_state, "output.json");
SaveGameState ==
    /\ pc = "save_game_state"
    /\ \/ /\ output_json' = "written"
          /\ UNCHANGED failed
       \/ /\ output_json' = "failed"
          /\ failed' = "save_game_state"
    /\ pc' = "println"
    /\ UNCHANGED <<ret, next_template, game_state, inputVars, detectionVars,
                   filteredVars, genVars, output_png, printed>>

\* lines 106-108: println!("Game state saved to output.json"); Ok(())
PrintSavedAndReturn ==
    /\ pc = "println"
    /\ printed' = TRUE
    /\ ret' = "Ok"
    /\ pc' = "returned"
    /\ UNCHANGED <<failed, next_template, game_state, inputVars,
                   detectionVars, filteredVars, genVars, output_png,
                   output_json>>

Next ==
    \/ LoadImage
    \/ MatchTemplate
    \/ Nms
    \/ DrawBoundingBoxes
    \/ SaveImage
    \/ GenEnter
    \/ VisitZone
    \/ GenReturn
    \/ SaveGameState
    \/ PrintSavedAndReturn

Spec == InitTranslate /\ [][Next]_vars

(***************************************************************************)
(* Claims about translate (checked under Spec).                            *)
(***************************************************************************)
Returned == pc = "returned"

\* C7 as stated: when writing the annotated image fails, translate returns
\* the error, but the game state is still computed and the write of the
\* game-state record is still attempted before translate returns.
C7_GameStateStillAttempted ==
    (Returned /\ output_png = "failed") =>
        /\ ret = "Err"
        /\ game_state # <<>>
        /\ output_json # "none"

\* C7 amended: when writing the annotated image fails, translate returns
\* the error at once: the game state is not computed, no write of
\* output.json is attempted and nothing is printed.
C7_SaveFailureEndsTranslate ==
    (Returned /\ output_png = "failed") =>
        /\ ret = "Err"
        /\ failed = "save_image"
        /\ game_state = <<>>
        /\ output_json = "none"
        /\ ~printed

\* translate has returned after the write of the annotated image failed,
\* with detections at hand.
C7_Witness ==
    /\ Returned
    /\ output_png = "failed"
    /\ cards # <<>>
    /\ suits # <<>>

\* C8: every failing step of translate makes it return an error; translate
\* never returns Ok and never reports the game state as saved after a write
\* of an output has failed.
C8_EveryFailureIsReturned ==
    (Returned /\ failed # "none") =>
        /\ ret = "Err"
        /\ ~printed

\* The templates in the order of TemplateFiles.
InFileOrder(ts) ==
    LET F[k \in 0..Len(TemplateFiles)] ==
            IF k = 0 THEN <<>>
            ELSE LET found == {i \in DOMAIN ts :
                                  ts[i].label = TemplateFiles[k].label}
                 IN  IF found = {} THEN F[k - 1]
                     ELSE Append(F[k - 1], ts[CHOOSE i \in found : TRUE])
    IN  F[Len(TemplateFiles)]

\* The detection sets after the for loop over ts, from template i on.
RECURSIVE Detections(_, _, _)
Detections(ts, i, sets) ==
    IF i > Len(ts) THEN sets
    ELSE Detections(ts, i + 1, ExtendDetections(ts[i], sets[1], sets[2]))

\* Suppression and generate_game_state (zones in range order) on the
\* templates ts.
ResultOf(ts) ==
    LET sets == Detections(ts, 1, <<<<>>, <<>>>>)
    IN  InOrderResultOf(NonMaximumSuppression(sets[1], overlap_thresh),
                        NonMaximumSuppression(sets[2], overlap_thresh))

SameAsInFileOrder ==
    /\ game_state # <<>> =>
           /\ ~ResultOf(InFileOrder(templates)).panicked
           /\ game_state[1] = GameStateOf(ResultOf(InFileOrder(templates)))
    /\ ret = "panic" => ResultOf(InFileOrder(templates)).panicked

BoxesOf(template) ==
    CreateBoundingBoxes(template.matches, template.cols, template.rows,
                        template.label)

\* Two different templates of the same kind (both ranks or both suits) have
\* boxes with the same bottom edge.
SharedY2 ==
    \E i, j \in DOMAIN templates :
        /\ i # j
        /\ IsSuitLabel(templates[i].label) = IsSuitLabel(templates[j].label)
        /\ \E a \in DOMAIN BoxesOf(templates[i]),
              b \in DOMAIN BoxesOf(templates[j]) :
               BoxesOf(templates[i])[a].y2 = BoxesOf(templates[j])[b].y2

\* C9 as stated: the game state is the same for every order in which the
\* templates are matched and merged, also when boxes of different templates
\* share the same y2.
C9_AnyTemplateOrder == SameAsInFileOrder

\* C9 amended: the game state is the same for every order of the templates
\* provided no two boxes of different templates merged into the same
\* detection set share the same y2 (two suit boxes equally distant from a
\* rank box do not matter then).
C9_OrderIrrelevantWithoutSharedY2 == ~SharedY2 => SameAsInFileOrder

\* A game state from templates listed against the file order, with no
\* shared y2, where the rank box has two equally distant suit boxes of
\* different labels and got one of them.
C9_Witness ==
    /\ game_state # <<>>
    /\ ~SharedY2
    /\ templates # InFileOrder(templates)
    /\ Len(suits) = 2
    /\ suits[1].label # suits[2].label
    /\ \E i \in DOMAIN cards :
           /\ Abs(suits[1].x1 - cards[i].x2) = Abs(suits[2].x1 - cards[i].x2)
           /\ associated_cards[i].label
                  = FormatLabel(cards[i].label, suits[1].label)

====
